---------------------------- MODULE Spec2Model ----------------------------
(* A model of pkg/log/time_rotation.go: one TimeRotationWriter, the callers *)
(* that use it concurrently, the clock, the directory it writes to and the  *)
(* retention goroutines it starts.                                          *)
(*                                                                          *)
(* Time is counted in ticks, TicksPerDay ticks to a calendar day.  A time   *)
(* pattern is modelled by the number of ticks one rendered label covers,    *)
(* and the label time.Format renders by the index of that bucket.  A file   *)
(* of the writer is named by its label; the name of the file a handle was   *)
(* opened on is computed from the writer's filename, a sequence of          *)
(* characters, as rotate computes it.  Files of the directory tree that     *)
(* are not the writer's are kept apart (others).                            *)
(*                                                                          *)
(* A caller moves through its method one statement at a time (pc).  The     *)
(* environment may fail os.OpenFile/os.MkdirAll, a Close and a Write or     *)
(* Sync system call; a failed write appends nothing.  lstat and os.Remove   *)
(* of one name are one step of the walk.                                    *)
(*                                                                          *)
(* The second part models the logger of package log: New, which builds the  *)
(* cores and their WriteSyncers from Options, log.Init, the logging calls   *)
(* and log.Flush.  A core is a level enabler and the writers of one rule;   *)
(* the fan-out over cores and writers is zapcore's (NewTee,                 *)
(* NewMultiWriteSyncer).  There a writer is taken as a whole: a write to it *)
(* either appends the record to the file of its path or fails.             *)
(*                                                                          *)
(* Two further parts: the package-level functions of package log called by  *)
(* several goroutines (mu, std), and the registry of coders of package      *)
(* errors with ParseCoder.                                                  *)
EXTENDS Integers, Sequences, FiniteSets, TLC

\* ------------------------------------------------------------------ bounds
NumProcs == 2
MaxNow == 3
MaxRecs == 2
MaxAgeDays == 1
TicksPerDay == 2
\* the retention scenario: files of RetBuckets consecutive buckets, maxAge up
\* to RetMaxAge
RetBuckets == 5
RetMaxAge == 2

Procs == 1..NumProcs
\* time patterns: finer than a day, daily, coarser than a day
Formats == {1, TicksPerDay, 2 * TicksPerDay}
\* the patterns of the writer under concurrent callers
CoarseFormats == {TicksPerDay, 2 * TicksPerDay}
NoDate == -1
NoFile == 0

\* the logger: records one run logs, calls of log.Init, and the size of Options
MaxLogs == 1
MaxInits == 2
MaxPaths == 3
MaxRules == 2
MaxFaults == 1

\* zapcore.Level
DebugLevel == -1
InfoLevel == 0
WarnLevel == 1
ErrorLevel == 2
Severities == DebugLevel..ErrorLevel

\* destination paths: a console stream and two files
Paths == {"stdout", "a", "b"}
\* keys of LevelOutputPaths: the sentinel, two severity names, a misspelt one
LevelKeys == {"all", "info", "error", "eror"}
\* values of Options.Level
LevelNames == {"warn", "verbose"}
\* file paths that name no file a writer could have: the empty path, and a
\* path in a directory that does not exist and cannot be created
BadPaths == {"", "ro/x"}
AllPaths == Paths \cup BadPaths
Modes == {"duplicate", "above", "exact"}

\* file names are sequences of characters; the base file name of the writer
\* under concurrent callers is app.log
AppLog == <<"a", "p", "p", ".", "l", "o", "g">>
\* the base file names of the writer with one caller: up to MaxName characters
MaxName == 3
Chars == {"a", ".", "/"}
Filenames ==
    {f \in UNION {[1..n -> Chars] : n \in 1..MaxName} : f[Len(f)] # "/"}

VARIABLES
    now,          \* the wall clock, in ticks
    timeFormat,   \* w.timeFormat: ticks per bucket
    maxAge,       \* w.maxAge
    currentDate,  \* w.currentDate
    currentFile,  \* w.currentFile: index into handles, NoFile for nil
    mu,           \* w.mu: 0 when free, else the holder
    handles,      \* every *os.File the writer opened: [path, open, linked]
    files,        \* the directory: label -> [exists, mtime, old, content];
                  \* old: the file holds bytes of an earlier run, content: the
                  \* records appended since
    pending,      \* retention goroutines started and not yet running
    walkers,      \* retention goroutines inside filepath.Walk
    pc, rec, date, file, res,   \* each caller's position and locals
    served,       \* successful writes in the order served: the record, the
                  \* label the call rendered, and whether the handle still
                  \* had a name in the directory
    fault,        \* per caller: the failure the environment injected into
                  \* this call ("none", "open", "close", "io")
    hist,         \* what has happened so far (history flags)
    opts,         \* the *Options std was built from
    std,          \* the logger New built: its state and its cores
    writers,      \* every WriteSyncer createWriteSyncer or
                  \* newLoggerWithTimeRotation has made, in the order made
    disk,         \* per destination path, the records written to it
    call,         \* the last call on the logger and what it did
    filename,     \* w.filename, a sequence of characters
    compress,     \* w.compress
    others,       \* the files under the writer's directory that are not
                  \* files of its own: [name, sub, mtime, exists]
    codes,        \* package errors: the registered coders, by code
    lastErr,      \* package errors: the error made last
    parsed,       \* package errors: what ParseCoder returned for it
    stdMu,        \* package log: the mutex mu of Init, 0 when free
    gpc           \* package log: each goroutine's position in its call

\* the state of one TimeRotationWriter and its callers
writerVars == <<now, timeFormat, maxAge, currentDate, currentFile, mu, handles,
                files, pending, walkers, pc, rec, date, file, res, served,
                fault, hist, filename, compress, others>>
\* the state of the logger built from Options
loggerVars == <<opts, std, writers, disk, call>>
\* the state of package errors
errorVars == <<codes, lastErr, parsed>>
\* the goroutines that call log.Init and the logging functions
raceVars == <<stdMu, gpc>>

vars == <<now, timeFormat, maxAge, currentDate, currentFile, mu, handles, files,
          pending, walkers, pc, rec, date, file, res, served, fault, hist,
          opts, std, writers, disk, call, filename, compress, others,
          codes, lastErr, parsed, stdMu, gpc>>

Labels == 0..(IF MaxNow > RetBuckets THEN MaxNow ELSE RetBuckets)
NoRes == [n |-> 0, err |-> "none"]
\* closed: Close has run; run: Close calls served since the last Write
\* returned (counted to 2); openFault, closeFault: rotate has met that failure
NoHist == [closed |-> FALSE, run |-> 0, openFault |-> FALSE, closeFault |-> FALSE]
\* compressed: the file has been compressed
Absent == [exists |-> FALSE, mtime |-> 0, old |-> FALSE, content |-> <<>>,
           compressed |-> FALSE]

\* os.IsPathSeparator
IsPathSeparator(c) == c = "/"

\* an Ext that takes the last dot of the whole path
ExtOfWholePath(path) ==
    LET dots == {i \in DOMAIN path : path[i] = "."} IN
    IF dots = {} THEN <<>>
    ELSE SubSeq(path, CHOOSE i \in dots : \A j \in dots : j <= i, Len(path))

RECURSIVE ExtFrom(_, _)
\* the loop of filepath.Ext: back from i to the first dot, stopping at a
\* separator
ExtFrom(path, i) ==
    IF i < 1 \/ IsPathSeparator(path[i]) THEN <<>>
    ELSE IF path[i] = "." THEN SubSeq(path, i, Len(path))
    ELSE ExtFrom(path, i - 1)

\* filepath.Ext(path)
Ext(path) == ExtFrom(path, Len(path))

RECURSIVE StripSlashes(_)
\* filepath.Base: strip trailing slashes
StripSlashes(path) ==
    IF path # <<>> /\ IsPathSeparator(path[Len(path)])
    THEN StripSlashes(SubSeq(path, 1, Len(path) - 1))
    ELSE path

RECURSIVE LastElement(_, _)
\* filepath.Base: the part of path after the last separator at or before i
LastElement(path, i) ==
    IF i < 1 \/ IsPathSeparator(path[i]) THEN SubSeq(path, i + 1, Len(path))
    ELSE LastElement(path, i - 1)

\* filepath.Base(path)
Base(path) ==
    IF path = <<>> THEN <<".">>
    ELSE LET s == StripSlashes(path) IN
         IF s = <<>> THEN <<"/">> ELSE LastElement(s, Len(s))

\* w.filename[:len(w.filename)-len(ext)]
WithoutExt(f) == SubSeq(f, 1, Len(f) - Len(Ext(f)))

\* the label time.Format renders, as it stands in a file name
Rendered(l) == <<ToString(l)>>

\* rotate: fmt.Sprintf("%s.%s%s", base, newDate, ext)
NewFilename(f, l) == WithoutExt(f) \o <<".">> \o Rendered(l) \o Ext(f)

\* cleanOldFiles: `len(filename) < len(base) || filename[:len(base)] != base`
\* does not hold, with base the last element of w.filename without its
\* extension
HasBasePrefix(name, f) ==
    LET base == Base(WithoutExt(f)) IN
    Len(name) >= Len(base) /\ SubSeq(name, 1, Len(base)) = base

\* time.Now().Format(w.timeFormat)
Format(t) == t \div timeFormat

\* time.Now().AddDate(0, 0, -w.maxAge)
Cutoff(t) == t - maxAge * TicksPerDay

\* NewOptions()
NewOptions ==
    [Level |-> "info", OutputPaths |-> <<"stdout">>,
     EnableTimeRotation |-> FALSE, EnableLevelOutput |-> FALSE,
     LevelOutputPaths |-> [k \in {} |-> <<>>],
     LevelOutputMode |-> "above"]

\* the last call: op, its arguments (arg: the Options of Init; sev, rec: the
\* level and the record of a log call), and what it did (panic, made: whether
\* New panicked and the writers it made; accepted: the cores that took the
\* entry; tried: the writers written or synced, in order; failed: those whose
\* system call failed; errs: the error the cores return to zap; ret: the
\* errors the call returns to its caller)
NoCall == [op |-> "none", arg |-> NewOptions, sev |-> InfoLevel, rec |-> 0,
           panic |-> FALSE, made |-> {}, accepted |-> {}, tried |-> <<>>,
           failed |-> {}, errs |-> <<>>, ret |-> <<>>]

\* the writer on its own: no logger is built on it, and the logger's
\* variables hold nothing
LoggerUnused ==
    /\ opts = <<>>
    /\ std = <<>>
    /\ writers = <<>>
    /\ disk = <<>>
    /\ call = <<>>
    /\ stdMu = 0
    /\ gpc = <<>>

\* package errors is not used
ErrorsUnused ==
    /\ codes = <<>>
    /\ lastErr = <<>>
    /\ parsed = <<>>

Init ==
    /\ LoggerUnused
    /\ ErrorsUnused
    /\ filename = AppLog
    /\ compress = TRUE
    /\ others = <<>>
    /\ now = 0
    /\ timeFormat \in CoarseFormats
    /\ maxAge \in 0..MaxAgeDays
    /\ currentDate = NoDate
    /\ currentFile = NoFile
    /\ mu = 0
    /\ handles = <<>>
    \* the directory may hold the current bucket's file of an earlier run
    /\ \E old \in BOOLEAN :
         files = [l \in Labels |->
                    IF old /\ l = 0
                    THEN [exists |-> TRUE, mtime |-> 0, old |-> TRUE,
                          content |-> <<>>, compressed |-> FALSE]
                    ELSE Absent]
    /\ pending = 0
    /\ walkers = {}
    /\ pc = [p \in Procs |-> "idle"]
    /\ rec = [p \in Procs |-> 0]
    /\ date = [p \in Procs |-> NoDate]
    /\ file = [p \in Procs |-> NoFile]
    /\ res = [p \in Procs |-> NoRes]
    /\ served = <<>>
    /\ fault = [p \in Procs |-> "none"]
    /\ hist = NoHist


\* ----------------------------------------------------------- os and sync
\* a Lock that does not wait for the holder
LockWithoutWaiting(p) == mu' = p

\* sync.Mutex.Lock: blocks until the mutex is free
Lock(p) == mu = 0 /\ mu' = p

\* sync.Mutex.Unlock (deferred: runs when the method returns)
Unlock(p) == mu = p /\ mu' = 0

\* the error of (*os.File).Close on handle h; ok: the system call succeeds
CloseErr(h, ok) ==
    IF ~handles[h].open THEN "closed" ELSE IF ok THEN "nil" ELSE "io"

\* a Close that leaves the descriptor open
CloseLeavesOpen(h) == handles

\* the handles after (*os.File).Close on h: the descriptor is released even
\* when the system call reports an error
AfterClose(h) == [handles EXCEPT ![h].open = FALSE]

\* os.OpenFile(name, O_CREATE|O_WRONLY|O_APPEND): an existing file is kept as
\* it is, a missing one is created empty
AfterOpen(l) ==
    IF files[l].exists THEN files
    ELSE [files EXCEPT ![l] = [exists |-> TRUE, mtime |-> now, old |-> FALSE,
                               content |-> <<>>, compressed |-> FALSE]]

\* os.Remove(path): the name goes; a handle still open on it keeps an inode
\* no name refers to
AfterRemove(l) == [files EXCEPT ![l] = Absent]

Unlinked(l) ==
    [h \in DOMAIN handles |->
        IF handles[h].path = l /\ handles[h].open
        THEN [handles[h] EXCEPT !.linked = FALSE]
        ELSE handles[h]]

Return(p) ==
    /\ Unlock(p)
    /\ pc' = [pc EXCEPT ![p] = "idle"]
    /\ rec' = [rec EXCEPT ![p] = 0]
    /\ date' = [date EXCEPT ![p] = NoDate]
    /\ file' = [file EXCEPT ![p] = NoFile]
    /\ res' = [res EXCEPT ![p] = NoRes]
    /\ fault' = [fault EXCEPT ![p] = "none"]

Min(S) == CHOOSE x \in S : \A y \in S : x <= y

Goto(p, l) == pc' = [pc EXCEPT ![p] = l]
Result(p, n, e) == res' = [res EXCEPT ![p] = [n |-> n, err |-> e]]

\* -------------------------------------------------------------- the clock
Tick ==
    /\ UNCHANGED <<loggerVars, errorVars, raceVars>>
    /\ UNCHANGED <<filename, compress, others>>
    /\ now < MaxNow
    /\ now' = now + 1
    /\ UNCHANGED <<timeFormat, maxAge, currentDate, currentFile, mu, handles,
                   files, pending, walkers, pc, rec, date, file, res,
                   served, fault, hist>>

\* ------------------------------------------------------------------ Write
\* the records a new Write can carry: those neither written nor in flight
\* (the record of a failed Write is free again)
FreeRecs ==
    (1..MaxRecs) \ ({served[i].rec : i \in DOMAIN served} \cup {rec[q] : q \in Procs})

WriteCall(p) ==
    /\ UNCHANGED <<loggerVars, errorVars, raceVars>>
    /\ UNCHANGED <<filename, compress, others>>
    /\ pc[p] = "idle"
    /\ FreeRecs # {}
    /\ rec' = [rec EXCEPT ![p] = Min(FreeRecs)]
    /\ Goto(p, "w_lock")
    /\ UNCHANGED <<now, timeFormat, maxAge, currentDate, currentFile, mu,
                   handles, files, pending, walkers, date, file, res, served,
                   fault, hist>>

\* currentDate := time.Now().Format(w.timeFormat) and the test on it
NeedRotate(d) == currentFile = NoFile \/ currentDate # d

\* w.mu.Lock() and lines 58-59
WLock(p) ==
    /\ UNCHANGED <<loggerVars, errorVars, raceVars>>
    /\ UNCHANGED <<filename, compress, others>>
    /\ pc[p] = "w_lock"
    /\ Lock(p)
    /\ date' = [date EXCEPT ![p] = Format(now)]
    /\ Goto(p, IF NeedRotate(Format(now)) THEN "r_close" ELSE "w_write")
    /\ UNCHANGED <<now, timeFormat, maxAge, currentDate, currentFile, handles,
                   files, pending, walkers, rec, file, res, served,
                   fault, hist>>

\* a Write that goes on to currentFile.Write after rotate has failed
RotateFailedFallThrough(p, e) ==
    /\ Result(p, 0, e)
    /\ Goto(p, "w_write")

\* Write's `if err := w.rotate(currentDate); err != nil { return 0, err }`
RotateFailed(p, e) ==
    /\ Result(p, 0, e)
    /\ Goto(p, "w_ret")

\* rotate: close the current file
RClose(p) ==
    /\ UNCHANGED <<loggerVars, errorVars, raceVars>>
    /\ UNCHANGED <<filename, compress, others>>
    /\ pc[p] = "r_close"
    /\ IF currentFile = NoFile
       THEN /\ Goto(p, "r_open")
            /\ UNCHANGED <<handles, res, fault, hist>>
       ELSE \E ok \in BOOLEAN :
              LET e == CloseErr(currentFile, ok) IN
              /\ handles' = AfterClose(currentFile)
              /\ fault' = [fault EXCEPT ![p] = IF e = "io" THEN "close" ELSE @]
              /\ hist' = [hist EXCEPT !.closeFault = @ \/ e = "io"]
              /\ IF e = "nil"
                 THEN Goto(p, "r_open") /\ UNCHANGED res
                 ELSE RotateFailed(p, e)
    /\ UNCHANGED <<now, timeFormat, maxAge, currentDate, currentFile, mu,
                   files, pending, walkers, rec, date, file, served>>

\* rotate: os.MkdirAll and os.OpenFile of the new name; ok: both succeed
ROpen(p) ==
    /\ UNCHANGED <<loggerVars, errorVars, raceVars>>
    /\ UNCHANGED <<filename, compress, others>>
    /\ pc[p] = "r_open"
    /\ \E ok \in BOOLEAN :
         IF ok
         THEN /\ files' = AfterOpen(date[p])
              /\ handles' = Append(handles,
                     [path |-> date[p], name |-> NewFilename(filename, date[p]),
                      open |-> TRUE, linked |-> TRUE])
              /\ file' = [file EXCEPT ![p] = Len(handles) + 1]
              /\ Goto(p, "r_setfile")
              /\ UNCHANGED <<res, fault, hist>>
         ELSE /\ RotateFailed(p, "open")
              /\ fault' = [fault EXCEPT ![p] = "open"]
              /\ hist' = [hist EXCEPT !.openFault = TRUE]
              /\ UNCHANGED <<files, handles, file>>
    /\ UNCHANGED <<now, timeFormat, maxAge, currentDate, currentFile, mu,
                   pending, walkers, rec, date, served>>

\* rotate: w.currentFile = file
RSetFile(p) ==
    /\ UNCHANGED <<loggerVars, errorVars, raceVars>>
    /\ UNCHANGED <<filename, compress, others>>
    /\ pc[p] = "r_setfile"
    /\ currentFile' = file[p]
    /\ Goto(p, "r_setdate")
    /\ UNCHANGED <<now, timeFormat, maxAge, currentDate, mu, handles, files,
                   pending, walkers, rec, date, file, res, served,
                   fault, hist>>

\* go w.cleanOldFiles(): one more goroutine to run; with maxAge <= 0 it
\* returns at its first statement and is not counted
Started == IF maxAge <= 0 THEN pending ELSE pending + 1

\* rotate: w.currentDate = newDate; go w.cleanOldFiles(); return nil
RSetDate(p) ==
    /\ UNCHANGED <<loggerVars, errorVars, raceVars>>
    /\ UNCHANGED <<filename, compress, others>>
    /\ pc[p] = "r_setdate"
    /\ currentDate' = date[p]
    /\ pending' = Started
    /\ Goto(p, "w_write")
    /\ UNCHANGED <<now, timeFormat, maxAge, currentFile, mu, handles, files,
                   walkers, rec, date, file, res, served, fault, hist>>

\* return w.currentFile.Write(p); ok: the write system call succeeds
WWrite(p) ==
    /\ UNCHANGED <<loggerVars, errorVars, raceVars>>
    /\ UNCHANGED <<filename, compress, others>>
    /\ pc[p] = "w_write"
    /\ Goto(p, "w_ret")
    /\ IF currentFile = NoFile
       THEN /\ Result(p, 0, "invalid")
            /\ UNCHANGED <<files, served, fault, hist>>
       ELSE IF ~handles[currentFile].open
       THEN /\ Result(p, 0, "closed")
            /\ UNCHANGED <<files, served, fault, hist>>
       ELSE \E ok \in BOOLEAN :
              LET h == handles[currentFile] IN
              IF ok
              THEN /\ Result(p, 1, "nil")
                   /\ files' = IF h.linked
                               THEN [files EXCEPT ![h.path] =
                                       [@ EXCEPT !.mtime = now,
                                                 !.content = Append(@, rec[p])]]
                               ELSE files
                   /\ served' = Append(served, [rec |-> rec[p], label |-> date[p],
                                                 landed |-> h.linked])
                   /\ UNCHANGED <<fault, hist>>
              ELSE /\ Result(p, 0, "io")
                   /\ fault' = [fault EXCEPT ![p] = "io"]
                   /\ UNCHANGED <<files, served, hist>>
    /\ UNCHANGED <<now, timeFormat, maxAge, currentDate, currentFile, mu,
                   handles, pending, walkers, rec, date, file>>

WRet(p) ==
    /\ UNCHANGED <<loggerVars, errorVars, raceVars>>
    /\ UNCHANGED <<filename, compress, others>>
    /\ pc[p] = "w_ret"
    /\ Return(p)
    /\ hist' = [hist EXCEPT !.run = 0]
    /\ UNCHANGED <<now, timeFormat, maxAge, currentDate, currentFile, handles,
                   files, pending, walkers, served>>

\* ------------------------------------------------------------------- Sync
SyncCall(p) ==
    /\ UNCHANGED <<loggerVars, errorVars, raceVars>>
    /\ UNCHANGED <<filename, compress, others>>
    /\ pc[p] = "idle"
    /\ Goto(p, "s_lock")
    /\ UNCHANGED <<now, timeFormat, maxAge, currentDate, currentFile, mu,
                   handles, files, pending, walkers, rec, date, file, res, served, fault, hist>>

\* w.mu.Lock(); if w.currentFile != nil { return w.currentFile.Sync() }
SBody(p) ==
    /\ UNCHANGED <<loggerVars, errorVars, raceVars>>
    /\ UNCHANGED <<filename, compress, others>>
    /\ pc[p] = "s_lock"
    /\ Lock(p)
    /\ Goto(p, "s_ret")
    /\ IF currentFile = NoFile
       THEN Result(p, 0, "nil") /\ UNCHANGED fault
       ELSE IF ~handles[currentFile].open
       THEN Result(p, 0, "closed") /\ UNCHANGED fault
       ELSE \E ok \in BOOLEAN :
              /\ Result(p, 0, IF ok THEN "nil" ELSE "io")
              /\ fault' = [fault EXCEPT ![p] = IF ok THEN "none" ELSE "io"]
    /\ UNCHANGED <<now, timeFormat, maxAge, currentDate, currentFile,
                   handles, files, pending, walkers, rec, date, file,
                   served, hist>>

SRet(p) ==
    /\ UNCHANGED <<loggerVars, errorVars, raceVars>>
    /\ UNCHANGED <<filename, compress, others>>
    /\ pc[p] = "s_ret"
    /\ Return(p)
    /\ UNCHANGED <<now, timeFormat, maxAge, currentDate, currentFile, handles,
                   files, pending, walkers, served, hist>>

\* ------------------------------------------------------------------ Close
CloseCall(p) ==
    /\ UNCHANGED <<loggerVars, errorVars, raceVars>>
    /\ UNCHANGED <<filename, compress, others>>
    /\ pc[p] = "idle"
    /\ Goto(p, "c_lock")
    /\ UNCHANGED <<now, timeFormat, maxAge, currentDate, currentFile, mu,
                   handles, files, pending, walkers, rec, date, file, res, served, fault, hist>>

\* w.mu.Lock(); if w.currentFile != nil { return w.currentFile.Close() }
CBody(p) ==
    /\ UNCHANGED <<loggerVars, errorVars, raceVars>>
    /\ UNCHANGED <<filename, compress, others>>
    /\ pc[p] = "c_lock"
    /\ Lock(p)
    /\ Goto(p, "c_ret")
    /\ IF currentFile = NoFile
       THEN /\ Result(p, 0, "nil")
            /\ hist' = [hist EXCEPT !.closed = TRUE,
                                    !.run = IF @ < 2 THEN @ + 1 ELSE @]
            /\ UNCHANGED <<handles, fault>>
       ELSE \E ok \in BOOLEAN :
              LET e == CloseErr(currentFile, ok) IN
              /\ Result(p, 0, e)
              /\ handles' = AfterClose(currentFile)
              /\ fault' = [fault EXCEPT ![p] = IF e = "io" THEN "close" ELSE "none"]
              /\ hist' = [hist EXCEPT !.closed = TRUE,
                                      !.run = IF @ < 2 THEN @ + 1 ELSE @]
    /\ UNCHANGED <<now, timeFormat, maxAge, currentDate, currentFile,
                   files, pending, walkers, rec, date, file, served>>

CRet(p) ==
    /\ UNCHANGED <<loggerVars, errorVars, raceVars>>
    /\ UNCHANGED <<filename, compress, others>>
    /\ pc[p] = "c_ret"
    /\ Return(p)
    /\ UNCHANGED <<now, timeFormat, maxAge, currentDate, currentFile, handles,
                   files, pending, walkers, served, hist>>

\* ---------------------------------------------------------- cleanOldFiles
\* info.ModTime().Before(cutoff)
Expired(l, cutoff) == files[l].exists /\ files[l].mtime < cutoff

\* the file of label l passes the callback's test on the name
OwnListed(l) == HasBasePrefix(Base(NewFilename(filename, l)), filename)

\* the callback's tests on another file of the tree: Walk goes down into
\* every subdirectory, so where the file lies is not looked at
OtherExpired(o, cutoff) ==
    /\ others[o].exists
    /\ HasBasePrefix(others[o].name, filename)
    /\ others[o].mtime < cutoff

\* the goroutine starts: the cutoff, and Walk's listing of the directory.
\* The listing is kept as the names whose file is older than the cutoff at
\* this moment: modification times only grow, so the callback removes no
\* other name of the listing, whenever it comes to it.
CleanStart ==
    /\ UNCHANGED <<loggerVars, errorVars, raceVars>>
    /\ UNCHANGED <<filename, compress, others>>
    /\ pending > 0
    /\ pending' = pending - 1
    /\ LET names == {l \in Labels : Expired(l, Cutoff(now)) /\ OwnListed(l)}
           more == {o \in DOMAIN others : OtherExpired(o, Cutoff(now))}
       IN  walkers' = IF maxAge <= 0 \/ (names = {} /\ more = {})
                      THEN walkers
                      ELSE walkers \cup {[cutoff |-> Cutoff(now), todo |-> names,
                                          more |-> more]}
    /\ UNCHANGED <<now, timeFormat, maxAge, currentDate, currentFile, mu,
                   handles, files, pc, rec, date, file, res, served,
                   fault, hist>>

\* Walk's callback on the next name of the listing: lstat, the age test and
\* os.Remove
CleanVisit ==
    /\ UNCHANGED <<loggerVars, errorVars, raceVars>>
    /\ UNCHANGED <<filename, compress>>
    /\ \E w \in walkers :
      /\ IF w.todo # {}
         THEN LET l == Min(w.todo)
                  rest == w.todo \ {l}
              IN
              /\ walkers' = (walkers \ {w}) \cup
                            (IF rest = {} /\ w.more = {} THEN {}
                             ELSE {[w EXCEPT !.todo = rest]})
              /\ IF Expired(l, w.cutoff)
                 THEN files' = AfterRemove(l) /\ handles' = Unlinked(l)
                 ELSE UNCHANGED <<files, handles>>
              /\ UNCHANGED others
         ELSE LET o == Min(w.more)
                  rest == w.more \ {o}
              IN
              /\ walkers' = (walkers \ {w}) \cup
                            (IF rest = {} THEN {} ELSE {[w EXCEPT !.more = rest]})
              /\ others' = IF OtherExpired(o, w.cutoff)
                            THEN [others EXCEPT ![o].exists = FALSE]
                            ELSE others
              /\ UNCHANGED <<files, handles>>
      /\ UNCHANGED <<now, timeFormat, maxAge, currentDate, currentFile, mu,
                     pending, pc, rec, date, file, res, served,
                     fault, hist>>

\* ------------------------------------------------------------------- Spec
Next ==
    \/ Tick
    \/ \E p \in Procs : WriteCall(p)
    \/ \E p \in Procs : WLock(p)
    \/ \E p \in Procs : RClose(p)
    \/ \E p \in Procs : ROpen(p)
    \/ \E p \in Procs : RSetFile(p)
    \/ \E p \in Procs : RSetDate(p)
    \/ \E p \in Procs : WWrite(p)
    \/ \E p \in Procs : WRet(p)
    \/ \E p \in Procs : SyncCall(p)
    \/ \E p \in Procs : SBody(p)
    \/ \E p \in Procs : SRet(p)
    \/ \E p \in Procs : CloseCall(p)
    \/ \E p \in Procs : CBody(p)
    \/ \E p \in Procs : CRet(p)
    \/ CleanStart
    \/ CleanVisit

Spec == Init /\ [][Next]_vars


\* ------------------------------------------------- the retention scenario
\* A writer that has just rotated into the last of RetBuckets consecutive
\* buckets: every bucket's file exists, last modified inside its own bucket,
\* the last one is open, and the rotation's cleanOldFiles has been started.
InitRet ==
    /\ LoggerUnused
    /\ ErrorsUnused
    /\ filename = AppLog
    /\ compress = TRUE
    /\ others = <<>>
    /\ timeFormat \in {1, TicksPerDay}
    /\ maxAge \in 1..RetMaxAge
    /\ now \in {t \in 0..((RetBuckets + 1) * TicksPerDay) : Format(t) = RetBuckets}
    /\ \E m \in [1..RetBuckets -> 0..(TicksPerDay - 1)] :
         /\ \A l \in 1..RetBuckets : m[l] < timeFormat
         /\ RetBuckets * timeFormat + m[RetBuckets] <= now
         /\ files = [l \in Labels |->
                       IF l \in 1..RetBuckets
                       THEN [exists |-> TRUE, mtime |-> l * timeFormat + m[l],
                             old |-> TRUE, content |-> <<>>,
                             compressed |-> FALSE]
                       ELSE Absent]
    /\ currentDate = RetBuckets
    /\ currentFile = 1
    /\ handles = <<[path |-> RetBuckets,
                    name |-> NewFilename(filename, RetBuckets),
                    open |-> TRUE, linked |-> TRUE]>>
    /\ mu = 0
    /\ pending = 1
    /\ walkers = {}
    /\ pc = [p \in Procs |-> "idle"]
    /\ rec = [p \in Procs |-> 0]
    /\ date = [p \in Procs |-> NoDate]
    /\ file = [p \in Procs |-> NoFile]
    /\ res = [p \in Procs |-> NoRes]
    /\ served = <<>>
    /\ fault = [p \in Procs |-> "none"]
    /\ hist = NoHist

NextRet == CleanStart \/ CleanVisit

SpecRet == InitRet /\ [][NextRet]_vars


\* ------------------------------------------------- retention and other files
\* the other files under the directory of app.log: an unrelated file whose
\* name begins like the base name (apps), a file with the name of a rotated
\* file in a subdirectory (old/app.1.log), a rotated file of the writer of
\* app-e.log, and one of the writer of err.log
OtherFiles ==
    <<[name |-> <<"a", "p", "p", "s">>, sub |-> FALSE],
      [name |-> <<"a", "p", "p", ".", "1", ".", "l", "o", "g">>, sub |-> TRUE],
      [name |-> <<"a", "p", "p", "-", "e", ".", "1", ".", "l", "o", "g">>, sub |-> FALSE],
      [name |-> <<"e", "r", "r", ".", "1", ".", "l", "o", "g">>, sub |-> FALSE]>>

\* The writer of app.log has just rotated into the last of RetBuckets daily
\* buckets: every bucket's file exists, last modified when its bucket began,
\* the last one is open, and the rotation's cleanOldFiles has been started.
\* Each of the other files was last modified long ago or just now.
InitClean ==
    /\ LoggerUnused
    /\ ErrorsUnused
    /\ filename = AppLog
    /\ compress = TRUE
    /\ timeFormat = TicksPerDay
    /\ maxAge \in 1..RetMaxAge
    /\ now \in {t \in 0..((RetBuckets + 1) * TicksPerDay) : Format(t) = RetBuckets}
    /\ \E t \in [DOMAIN OtherFiles -> {0, now}] :
         others = [o \in DOMAIN OtherFiles |->
                     [name |-> OtherFiles[o].name, sub |-> OtherFiles[o].sub,
                      mtime |-> t[o], exists |-> TRUE]]
    /\ files = [l \in Labels |->
                  IF l \in 1..RetBuckets
                  THEN [exists |-> TRUE, mtime |-> l * timeFormat, old |-> TRUE,
                        content |-> <<>>, compressed |-> FALSE]
                  ELSE Absent]
    /\ currentDate = RetBuckets
    /\ currentFile = 1
    /\ handles = <<[path |-> RetBuckets,
                    name |-> NewFilename(filename, RetBuckets),
                    open |-> TRUE, linked |-> TRUE]>>
    /\ mu = 0
    /\ pending = 1
    /\ walkers = {}
    /\ pc = [p \in Procs |-> "idle"]
    /\ rec = [p \in Procs |-> 0]
    /\ date = [p \in Procs |-> NoDate]
    /\ file = [p \in Procs |-> NoFile]
    /\ res = [p \in Procs |-> NoRes]
    /\ served = <<>>
    /\ fault = [p \in Procs |-> "none"]
    /\ hist = NoHist

SpecClean == InitClean /\ [][NextRet]_vars


\* ------------------------------------------------- one caller, any file name
\* A writer made for any base file name, with or without compress, retention
\* off (maxAge 0), written to by one caller while the clock runs.
Caller == 1

InitOne ==
    /\ LoggerUnused
    /\ ErrorsUnused
    /\ filename \in Filenames \cup {AppLog}
    /\ compress \in BOOLEAN
    /\ others = <<>>
    /\ now = 0
    /\ timeFormat \in Formats
    /\ maxAge = 0
    /\ currentDate = NoDate
    /\ currentFile = NoFile
    /\ mu = 0
    /\ handles = <<>>
    /\ files = [l \in Labels |-> Absent]
    /\ pending = 0
    /\ walkers = {}
    /\ pc = [p \in Procs |-> "idle"]
    /\ rec = [p \in Procs |-> 0]
    /\ date = [p \in Procs |-> NoDate]
    /\ file = [p \in Procs |-> NoFile]
    /\ res = [p \in Procs |-> NoRes]
    /\ served = <<>>
    /\ fault = [p \in Procs |-> "none"]
    /\ hist = NoHist

NextOne ==
    \/ Tick
    \/ WriteCall(Caller)
    \/ WLock(Caller)
    \/ RClose(Caller)
    \/ ROpen(Caller)
    \/ RSetFile(Caller)
    \/ RSetDate(Caller)
    \/ WWrite(Caller)
    \/ WRet(Caller)

SpecOne == InitOne /\ [][NextOne]_vars


\* ------------------------------------------------------------- the logger
\* zapcore.Level.UnmarshalText: the level a name denotes, or an error (the
\* level then keeps its zero value, InfoLevel)
UnmarshalText(text) ==
    CASE text = "debug" -> [err |-> FALSE, level |-> DebugLevel]
      [] text = "info"  -> [err |-> FALSE, level |-> InfoLevel]
      [] text = "warn"  -> [err |-> FALSE, level |-> WarnLevel]
      [] text = "error" -> [err |-> FALSE, level |-> ErrorLevel]
      [] OTHER          -> [err |-> TRUE, level |-> InfoLevel]

\* a zapLevel that lets every level through
ZapLevelIgnored(o) == DebugLevel

\* a zapLevel that falls to the lowest level when Options.Level does not parse
ZapLevelFallsToDebug(o) ==
    IF UnmarshalText(o.Level).err THEN DebugLevel ELSE UnmarshalText(o.Level).level

\* New: zapLevel, InfoLevel when Options.Level does not parse
ZapLevel(o) ==
    IF UnmarshalText(o.Level).err THEN InfoLevel ELSE UnmarshalText(o.Level).level

IsConsole(path) == path = "stdout" \/ path = "stderr"

\* os.MkdirAll(filepath.Dir(path), 0755) fails
Uncreatable(path) == path = "ro/x"

\* createWriteSyncer(path, opts): a new WriteSyncer on every call. zap.Open
\* of a console stream wraps the process's stream; a file path gets a new
\* TimeRotationWriter or a new size-rotating writer, neither of which opens
\* its file before the first Write.
createWriteSyncer(path, o) ==
    [path |-> path,
     kind |-> IF IsConsole(path) THEN "console"
              ELSE IF o.EnableTimeRotation THEN "time" ELSE "size",
     open |-> IsConsole(path),
     closes |-> 0]

\* the loop `for _, path := range paths { ws := createWriteSyncer(path, opts);
\* if ws != nil { writeSyncers = append(writeSyncers, ws) } }`
WriteSyncers(paths, o) == [i \in DOMAIN paths |-> createWriteSyncer(paths[i], o)]

\* zapcore.NewCore(encoder, NewMultiWriteSyncer(writeSyncers...), enabler) on
\* the n writers made after the first `made`; key: the rule it was built for
NewCore(key, enab, level, made, n) ==
    [key |-> key, enab |-> enab, level |-> level,
     ws |-> [i \in 1..n |-> made + i]]

\* a rule's core is given the enabler of the above mode whatever the mode
RuleEnablerAlwaysAbove(o) == "ge"

\* a rule's core is given the enabler of the exact mode whatever the mode
RuleEnablerAlwaysExact(o) == "eq"

\* the LevelEnabler of a rule's core: l == level in duplicate and exact mode,
\* l >= level otherwise
RuleEnabler(o) ==
    IF o.LevelOutputMode = "duplicate" \/ o.LevelOutputMode = "exact"
    THEN "eq" ELSE "ge"

\* the "all" rule of the duplicate mode: a core at zapLevel, if the key is
\* there with at least one path; b: the cores and writers built so far
AllCore(o, b) ==
    IF "all" \in DOMAIN o.LevelOutputPaths /\ Len(o.LevelOutputPaths["all"]) > 0
    THEN LET paths == o.LevelOutputPaths["all"] IN
         [cores |-> Append(b.cores,
                       NewCore("all", "ge", ZapLevel(o), Len(b.ws), Len(paths))),
          ws |-> b.ws \o WriteSyncers(paths, o)]
    ELSE b

\* a turn of the loop that goes on with the level UnmarshalText left behind
\* when it failed
RuleCoreIgnoresParseError(o, k, b) ==
    LET paths == o.LevelOutputPaths[k]
        lv == UnmarshalText(k)
    IN  IF o.LevelOutputMode = "duplicate" /\ k = "all" THEN b
        ELSE IF Len(paths) = 0 THEN b
        ELSE [cores |-> Append(b.cores,
                          NewCore(k, RuleEnabler(o), lv.level, Len(b.ws), Len(paths))),
              ws |-> b.ws \o WriteSyncers(paths, o)]

\* one turn of `for levelStr, paths := range opts.LevelOutputPaths`
RuleCore(o, k, b) ==
    LET paths == o.LevelOutputPaths[k]
        lv == UnmarshalText(k)
    IN  IF o.LevelOutputMode = "duplicate" /\ k = "all" THEN b
        ELSE IF lv.err THEN b
        ELSE IF Len(paths) = 0 THEN b
        ELSE [cores |-> Append(b.cores,
                          NewCore(k, RuleEnabler(o), lv.level, Len(b.ws), Len(paths))),
              ws |-> b.ws \o WriteSyncers(paths, o)]

\* the loop over the map, in the order the iteration happens to take
RECURSIVE RuleCores(_, _, _)
RuleCores(o, order, b) ==
    IF order = <<>> THEN b
    ELSE RuleCores(o, Tail(order), RuleCore(o, Head(order), b))

\* the orders in which a range over a map with key set K can run
Orders(K) ==
    {s \in [1..Cardinality(K) -> K] : \A i, j \in DOMAIN s : i # j => s[i] # s[j]}

\* newLoggerWithLevelOutput: the cores and writers it builds on top of the
\* writers ws; err when there is no core
newLoggerWithLevelOutput(o, order, ws) ==
    LET b0 == [cores |-> <<>>, ws |-> ws]
        b1 == IF o.LevelOutputMode = "duplicate" THEN AllCore(o, b0) ELSE b0
        b == RuleCores(o, order, b1)
    IN  [cores |-> b.cores, ws |-> b.ws, err |-> b.cores = <<>>]

\* newLoggerWithTimeRotation: one core at zapLevel over OutputPaths, a new
\* TimeRotationWriter for every file path
newLoggerWithTimeRotation(o, ws) ==
    LET paths == o.OutputPaths
        made == [i \in DOMAIN paths |->
                   [path |-> paths[i],
                    kind |-> IF IsConsole(paths[i]) THEN "console" ELSE "time",
                    open |-> IsConsole(paths[i]), closes |-> 0]]
    IN  IF Len(paths) = 0
        THEN [cores |-> <<>>, ws |-> ws, err |-> TRUE]
        ELSE [cores |-> <<NewCore("outputs", "ge", ZapLevel(o), Len(ws), Len(paths))>>,
              ws |-> ws \o made, err |-> FALSE]

\* zap.Config.Build: one core at zapLevel over zap.Open(OutputPaths...),
\* which opens every file path at once
DefaultBuild(o, ws) ==
    LET paths == o.OutputPaths
        made == [i \in DOMAIN paths |->
                   [path |-> paths[i],
                    kind |-> IF IsConsole(paths[i]) THEN "console" ELSE "plain",
                    open |-> TRUE, closes |-> 0]]
    IN  [cores |-> <<NewCore("outputs", "ge", ZapLevel(o), Len(ws), Len(paths))>>,
         ws |-> ws \o made, err |-> FALSE]

\* New: `opts.EnableLevelOutput && len(opts.LevelOutputPaths) > 0`
UsesLevelOutput(o) == o.EnableLevelOutput /\ DOMAIN o.LevelOutputPaths # {}

\* New(opts): the branch taken and what it builds
New(o, order, ws) ==
    IF UsesLevelOutput(o) THEN newLoggerWithLevelOutput(o, order, ws)
    ELSE IF o.EnableTimeRotation THEN newLoggerWithTimeRotation(o, ws)
    ELSE DefaultBuild(o, ws)

\* the Options a run hands to log.Init: level routing with up to MaxRules
\* rules and MaxPaths paths in all, its files rotated by time, or no routing
\* and a list of outputs
RECURSIVE RulesOver(_, _)
\* the maps with key set K whose path lists have at most n entries in all
RulesOver(K, n) ==
    IF K = {} THEN {[k \in {} |-> <<>>]}
    ELSE LET k == CHOOSE x \in K : TRUE IN
         UNION {{[x \in K |-> IF x = k THEN l ELSE r[x]] :
                    l \in [1..i -> Paths], r \in RulesOver(K \ {k}, n - i)} :
                  i \in 0..n}

RuleSets ==
    UNION {RulesOver(K, MaxPaths) :
             K \in {K \in SUBSET LevelKeys : Cardinality(K) <= MaxRules}}

RoutedOptions ==
    {[Level |-> lv, OutputPaths |-> <<"stdout">>, EnableTimeRotation |-> TRUE,
      EnableLevelOutput |-> TRUE, LevelOutputPaths |-> r, LevelOutputMode |-> m] :
        lv \in LevelNames, m \in Modes,
        r \in RuleSets}

PlainOptions ==
    {[Level |-> lv, OutputPaths |-> out, EnableTimeRotation |-> tr,
      EnableLevelOutput |-> FALSE, LevelOutputPaths |-> [k \in {} |-> <<>>],
      LevelOutputMode |-> "above"] :
        lv \in LevelNames, tr \in BOOLEAN,
        out \in UNION {[1..n -> {"stdout", "a"}] : n \in 0..2}}

\* level routing with one rule, some of whose paths name no file
ResolverOptions ==
    {[Level |-> lv, OutputPaths |-> <<"stdout">>, EnableTimeRotation |-> TRUE,
      EnableLevelOutput |-> TRUE, LevelOutputPaths |-> [k \in {"info"} |-> l],
      LevelOutputMode |-> "above"] :
        lv \in LevelNames,
        l \in {s \in UNION {[1..n -> BadPaths \cup {"a"}] : n \in 1..2} :
                 \E i \in DOMAIN s : s[i] \in BadPaths}}

\* the Options log.Init is called with: anything the first time, the default
\* Options after that
InitOptions ==
    IF std.inits = 0 THEN RoutedOptions \cup PlainOptions \cup ResolverOptions
    ELSE {NewOptions}

\* the state once the package is loaded: `std = New(NewOptions())`
InitLogger ==
    /\ opts = NewOptions
    /\ std = [cores |-> DefaultBuild(NewOptions, <<>>).cores, inits |-> 0,
              logs |-> 0]
    /\ writers = DefaultBuild(NewOptions, <<>>).ws
    /\ disk = [d \in AllPaths |-> <<>>]
    /\ call = NoCall

\* log.Init(o): std = New(o) under the package's mutex; New panics on a build
\* error, and std is then left as it was
LogInit(o) ==
    /\ std.inits < MaxInits
    /\ \E order \in Orders(DOMAIN o.LevelOutputPaths) :
         LET l == New(o, order, writers) IN
         /\ opts' = IF l.err THEN opts ELSE o
         /\ std' = IF l.err THEN [std EXCEPT !.inits = @ + 1]
                   ELSE [std EXCEPT !.cores = l.cores, !.inits = @ + 1]
         /\ writers' = IF l.err THEN writers ELSE l.ws
         /\ call' = [NoCall EXCEPT !.op = "init", !.arg = o, !.panic = l.err,
                                   !.made = (Len(writers) + 1)..Len(l.ws)]
    /\ UNCHANGED disk
    /\ UNCHANGED <<writerVars, errorVars>>

\* the LevelEnabler of a core
Enabled(core, sev) ==
    IF core.enab = "eq" THEN sev = core.level ELSE sev >= core.level

\* the writers of the cores numbered in I, core after core, in the order
\* NewTee and NewMultiWriteSyncer go through them
RECURSIVE Fanout(_, _)
Fanout(cores, I) ==
    IF I = {} THEN <<>>
    ELSE LET i == Min(I) IN
         [j \in DOMAIN cores[i].ws |-> [core |-> i, w |-> cores[i].ws[j]]]
            \o Fanout(cores, I \ {i})

\* a fan-out that gives up at the first writer that fails
RECURSIVE UntilFirstError(_, _)
UntilFirstError(tried, bad) ==
    IF tried = <<>> THEN <<>>
    ELSE IF Head(tried).w \in bad THEN <<Head(tried)>>
    ELSE <<Head(tried)>> \o UntilFirstError(Tail(tried), bad)

\* multiCore.Write and multiWriteSyncer.Write: every writer is written to,
\* whichever of them fail
Written(tried, bad) == tried

\* multiCore.Sync and multiWriteSyncer.Sync: every writer is synced, whichever
\* of them fail
Synced(tried, bad) == tried

IsBad(bad, t) == t.w \in bad
\* the errors the fan-out appends, one for each writer that failed
Errors(tried, bad) ==
    LET failed == SelectSeq(tried, LAMBDA t : IsBad(bad, t))
    IN  [i \in DOMAIN failed |-> failed[i].w]

\* how many of the writes tried reached the file or stream of path d
Reached(tried, bad, d) ==
    Cardinality({i \in DOMAIN tried :
                    tried[i].w \notin bad /\ writers[tried[i].w].path = d})

\* the sets of writers that fail during one call
Faults(tried) ==
    {B \in SUBSET {tried[i].w : i \in DOMAIN tried} : Cardinality(B) <= MaxFaults}

\* the writers whose Write cannot but fail: rotate returns the error of
\* os.MkdirAll
Doomed(tried) ==
    {tried[i].w : i \in {j \in DOMAIN tried : Uncreatable(writers[tried[j].w].path)}}

\* log.Debug .. log.Error on std: every core whose enabler accepts the level
\* writes the entry to its writers; the methods return nothing
Log(sev) ==
    /\ std.logs < MaxLogs
    /\ LET accepted == {i \in DOMAIN std.cores : Enabled(std.cores[i], sev)}
           all == Fanout(std.cores, accepted)
       IN  \E env \in Faults(all) :
             LET bad == env \cup Doomed(all)
                 tried == Written(all, bad)
             IN
             /\ disk' = [d \in AllPaths |->
                           disk[d] \o [j \in 1..Reached(tried, bad, d) |-> std.logs + 1]]
             /\ writers' = [w \in DOMAIN writers |->
                              IF \E i \in DOMAIN tried : tried[i].w = w /\ w \notin bad
                              THEN [writers[w] EXCEPT !.open = TRUE]
                              ELSE writers[w]]
             /\ call' = [NoCall EXCEPT !.op = "log", !.sev = sev,
                                       !.rec = std.logs + 1,
                                       !.accepted = accepted,
                                       !.tried = tried,
                                       !.failed = bad,
                                       !.errs = Errors(tried, bad),
                                       !.ret = <<>>]
    /\ std' = [std EXCEPT !.logs = @ + 1]
    /\ UNCHANGED opts
    /\ UNCHANGED <<writerVars, errorVars>>

\* log.Flush: `_ = l.zapLogger.Sync()`; every writer of every core is synced
\* and the error is dropped
Flush ==
    /\ call.op # "flush"
    /\ LET all == Fanout(std.cores, DOMAIN std.cores) IN
       \E bad \in Faults(all) :
         LET tried == Synced(all, bad) IN
         call' = [NoCall EXCEPT !.op = "flush", !.tried = tried,
                                !.failed = bad,
                                !.errs = Errors(tried, bad),
                                !.ret = <<>>]
    /\ UNCHANGED <<opts, std, writers, disk>>
    /\ UNCHANGED <<writerVars, errorVars>>

\* one goroutine makes the calls, one after the other
NextLogger ==
    \/ \E o \in InitOptions : LogInit(o) /\ UNCHANGED raceVars
    \/ \E sev \in Severities : Log(sev) /\ UNCHANGED raceVars
    \/ Flush /\ UNCHANGED raceVars

\* the logger, its writers taken as whole operations
InitLog ==
    /\ InitLogger
    /\ ErrorsUnused
    /\ stdMu = 0
    /\ gpc = <<>>
    /\ filename = AppLog
    /\ compress = TRUE
    /\ others = <<>>
    /\ now = 0
    /\ timeFormat = TicksPerDay
    /\ maxAge = 0
    /\ currentDate = NoDate
    /\ currentFile = NoFile
    /\ mu = 0
    /\ handles = <<>>
    /\ files = [l \in Labels |-> Absent]
    /\ pending = 0
    /\ walkers = {}
    /\ pc = [p \in Procs |-> "idle"]
    /\ rec = [p \in Procs |-> 0]
    /\ date = [p \in Procs |-> NoDate]
    /\ file = [p \in Procs |-> NoFile]
    /\ res = [p \in Procs |-> NoRes]
    /\ served = <<>>
    /\ fault = [p \in Procs |-> "none"]
    /\ hist = NoHist

SpecLog == InitLog /\ [][NextLogger]_vars


\* no writer is in use: the writer's variables hold the state of one never
\* written to
WriterUnused ==
    /\ filename = AppLog
    /\ compress = TRUE
    /\ others = <<>>
    /\ now = 0
    /\ timeFormat = TicksPerDay
    /\ maxAge = 0
    /\ currentDate = NoDate
    /\ currentFile = NoFile
    /\ mu = 0
    /\ handles = <<>>
    /\ files = [l \in Labels |-> Absent]
    /\ pending = 0
    /\ walkers = {}
    /\ pc = [p \in Procs |-> "idle"]
    /\ rec = [p \in Procs |-> 0]
    /\ date = [p \in Procs |-> NoDate]
    /\ file = [p \in Procs |-> NoFile]
    /\ res = [p \in Procs |-> NoRes]
    /\ served = <<>>
    /\ fault = [p \in Procs |-> "none"]
    /\ hist = NoHist

\* ------------------------------------------- the logger under goroutines
\* Goroutines call log.Init, the logging functions and log.Flush at the same
\* time.  Init takes the package's mutex mu around `std = New(opts)`; the
\* other functions read std without it.  A goroutine stands before the
\* statement its position names.
Goroutines == 1..NumProcs

At(g, l) == gpc[g] = l
To(g, l) == gpc' = [gpc EXCEPT ![g] = l]

\* the calls of Init begun and not yet at their assignment to std
InitsUnderWay == Cardinality({g \in Goroutines : gpc[g] \in {"i_lock", "i_store"}})

\* the logging calls begun and not yet at their use of std
LogsUnderWay == Cardinality({g \in Goroutines : gpc[g] = "l_read"})

\* log.Init(opts) is called
InitCall(g) ==
    /\ At(g, "idle")
    /\ std.inits + InitsUnderWay < MaxInits
    /\ To(g, "i_lock")
    /\ UNCHANGED <<stdMu, loggerVars, writerVars, errorVars>>

\* Init: mu.Lock()
InitLock(g) ==
    /\ At(g, "i_lock")
    /\ stdMu = 0
    /\ stdMu' = g
    /\ To(g, "i_store")
    /\ UNCHANGED <<loggerVars, writerVars, errorVars>>

\* Init: std = New(opts)
InitStore(g) ==
    /\ At(g, "i_store")
    /\ \E o \in PlainOptions : LogInit(o)
    /\ To(g, "i_unlock")
    /\ UNCHANGED stdMu

\* Init: the deferred mu.Unlock()
InitUnlock(g) ==
    /\ At(g, "i_unlock")
    /\ stdMu = g
    /\ stdMu' = 0
    /\ To(g, "idle")
    /\ UNCHANGED <<loggerVars, writerVars, errorVars>>

\* log.Debug .. log.Error is called
LogCall(g) ==
    /\ At(g, "idle")
    /\ std.logs + LogsUnderWay < MaxLogs
    /\ To(g, "l_read")
    /\ UNCHANGED <<stdMu, loggerVars, writerVars, errorVars>>

\* `std.zapLogger.Debug(msg, fields...)`: std is read, without mu, and the
\* entry goes through the logger read
LogRead(g) ==
    /\ At(g, "l_read")
    /\ \E sev \in Severities : Log(sev)
    /\ To(g, "idle")
    /\ UNCHANGED stdMu

\* log.Flush is called
FlushCall(g) ==
    /\ At(g, "idle")
    /\ call.op # "flush"
    /\ \A h \in Goroutines : ~At(h, "f_read")
    /\ To(g, "f_read")
    /\ UNCHANGED <<stdMu, loggerVars, writerVars, errorVars>>

\* `std.Flush()`: std is read, without mu, and the logger read is synced
FlushRead(g) ==
    /\ At(g, "f_read")
    /\ Flush
    /\ To(g, "idle")
    /\ UNCHANGED stdMu

NextRace ==
    \/ \E g \in Goroutines : InitCall(g)
    \/ \E g \in Goroutines : InitLock(g)
    \/ \E g \in Goroutines : InitStore(g)
    \/ \E g \in Goroutines : InitUnlock(g)
    \/ \E g \in Goroutines : LogCall(g)
    \/ \E g \in Goroutines : LogRead(g)
    \/ \E g \in Goroutines : FlushCall(g)
    \/ \E g \in Goroutines : FlushRead(g)

InitRace ==
    /\ InitLogger
    /\ stdMu = 0
    /\ gpc = [g \in Goroutines |-> "idle"]
    /\ ErrorsUnused
    /\ WriterUnused

SpecRace == InitRace /\ [][NextRace]_vars


\* --------------------------------------------------------- package errors
\* net/http
StatusOK == 200
StatusBadRequest == 400
StatusNotFound == 404
StatusInternalServerError == 500

\* the codes programs register, and the values of the field HTTP (0: not set)
Codes == {2, 3}
Statuses == {0, StatusBadRequest, StatusNotFound}
\* the code of an error made without one
NoCode == 0
UnknownCode == 1

\* unknownCoder
unknownCoder == [C |-> UnknownCode, HTTP |-> StatusInternalServerError]

\* an HTTPStatus that answers 500 when the field is not set
HTTPStatusUnsetIs500(coder) ==
    IF coder.HTTP = 0 THEN StatusInternalServerError ELSE coder.HTTP

\* defaultCoder.HTTPStatus()
HTTPStatus(coder) == IF coder.HTTP = 0 THEN StatusOK ELSE coder.HTTP

\* ParseCoder(err): the coder registered for the code the error carries,
\* unknownCoder when it carries none or none is registered for it
ParseCoder(e) ==
    IF e.code \in DOMAIN codes THEN codes[e.code] ELSE unknownCoder

NoError == [nil |-> TRUE, code |-> NoCode]
NoParse == [nil |-> TRUE, coder |-> unknownCoder, status |-> 0]

InitErrors ==
    /\ codes = [c \in {} |-> unknownCoder]
    /\ lastErr = NoError
    /\ parsed = NoParse
    /\ LoggerUnused
    /\ WriterUnused

\* Register(coder)
Register(coder) ==
    /\ codes' = [c \in DOMAIN codes \cup {coder.C} |->
                   IF c = coder.C THEN coder ELSE codes[c]]
    /\ UNCHANGED <<lastErr, parsed>>
    /\ UNCHANGED <<writerVars, loggerVars, raceVars>>

\* err := WithCode(code, msg)
WithCode(code) ==
    /\ lastErr' = [nil |-> FALSE, code |-> code]
    /\ UNCHANGED <<codes, parsed>>
    /\ UNCHANGED <<writerVars, loggerVars, raceVars>>

\* err := New(msg): an error that carries no code
NewError ==
    /\ lastErr' = [nil |-> FALSE, code |-> NoCode]
    /\ UNCHANGED <<codes, parsed>>
    /\ UNCHANGED <<writerVars, loggerVars, raceVars>>

\* coder := ParseCoder(err); status := coder.HTTPStatus()
Parse ==
    /\ ~lastErr.nil
    /\ parsed' = [nil |-> FALSE, coder |-> ParseCoder(lastErr),
                  status |-> HTTPStatus(ParseCoder(lastErr))]
    /\ UNCHANGED <<codes, lastErr>>
    /\ UNCHANGED <<writerVars, loggerVars, raceVars>>

NextErrors ==
    \/ \E c \in Codes, h \in Statuses : Register([C |-> c, HTTP |-> h])
    \/ \E c \in Codes : WithCode(c)
    \/ NewError
    \/ Parse

SpecErrors == InitErrors /\ [][NextErrors]_vars


\* ------------------------------------------------------------- vocabulary
\* p holds the writer: it is past Lock and has not yet run the deferred Unlock
InCS(p) == pc[p] \in {"r_close", "r_open", "r_setfile", "r_setdate",
                      "w_write", "w_ret", "s_ret", "c_ret"}
InRotate(p) == pc[p] \in {"r_close", "r_open", "r_setfile", "r_setdate"}
InWrite(p) == InRotate(p) \/ pc[p] \in {"w_write", "w_ret"}

\* the writer holds an open handle
IsOpen == currentFile # NoFile /\ handles[currentFile].open

\* how often record r occurs in the file of label l
Occ(l, r) == Cardinality({i \in DOMAIN files[l].content : files[l].content[i] = r})

\* what this run of the program appended to the file of label l
NewContent(l) == files[l].content

\* the records served with label l, in the order served
IsLabel(l, e) == e.label = l
ServedAt(l) ==
    LET own == SelectSeq(served, LAMBDA e : IsLabel(l, e))
    IN [i \in DOMAIN own |-> own[i].rec]

AllServed == [i \in DOMAIN served |-> served[i].rec]

\* retention has removed no file while a handle was open on it
NeverLost == \A h \in DOMAIN handles : handles[h].linked

\* no failure of the environment has entered a rotation so far
NoRotateFault == ~hist.openFault /\ ~hist.closeFault

\* ------------------------------------------------------------------ claims

\* C1: every Write that returned success has its record exactly once, in
\* exactly one file, the file of the bucket its call rendered: the record
\* went into a file the directory names (it was not dropped), a file that
\* still exists holds it once, and no other file holds it.
C1_NoDropNoDup ==
    \A i \in DOMAIN served :
        /\ served[i].landed
        /\ files[served[i].label].exists => Occ(served[i].label, served[i].rec) = 1
        /\ \A l \in Labels : l # served[i].label => Occ(l, served[i].rec) = 0

\* C1 holds as long as retention has removed no file from under an open
\* handle
C1_WhileOpenFileKept == NeverLost => C1_NoDropNoDup

C3_RotationBoundary ==
    /\ \A i, j \in DOMAIN served :
          served[i].label # served[j].label =>
              served[i].landed /\ served[j].landed
    /\ \A l \in Labels : files[l].exists => NewContent(l) = ServedAt(l)
    /\ \A g, h \in DOMAIN handles : g # h => handles[g].path # handles[h].path

\* C3 holds as long as retention has removed no file from under an open
\* handle
C3_WhileOpenFileKept == NeverLost => C3_RotationBoundary

\* C4: while the label has not changed since the writer was made and the
\* writer holds its file, the records served so far went through one opened
\* file, and that file holds all of them in the order served.
C4_OneFileInOrder ==
    (Format(now) = Format(0) /\ IsOpen /\ served # <<>>) =>
        /\ Len(handles) = 1
        /\ files[Format(0)].exists
        /\ NewContent(Format(0)) = AllServed

\* C4 holds as long as retention has removed no file from under an open
\* handle
C4_WhileOpenFileKept == NeverLost => C4_OneFileInOrder

\* C5: a Write whose rotation could not create the new file returns
\* (0, the creation error), and its record is in no file, the previous
\* bucket's file included.
C5_RotationErrorFailsWrite ==
    \A p \in Procs :
        (pc[p] = "w_ret" /\ fault[p] = "open") =>
            /\ res[p] = [n |-> 0, err |-> "open"]
            /\ \A l \in Labels : Occ(l, rec[p]) = 0
            /\ \A i \in DOMAIN served : served[i].rec # rec[p]

\* C5 witness: the failed rotation had a previous bucket's file, with a
\* record in it, to fall back to
C5_Witness ==
    \E p \in Procs :
        /\ pc[p] = "w_ret" /\ fault[p] = "open"
        /\ currentFile # NoFile
        /\ currentDate # date[p]
        /\ files[currentDate].exists
        /\ NewContent(currentDate) # <<>>

\* C6: after a Write has failed because the new file could not be created,
\* a later Write that meets no failure itself succeeds (Close never called,
\* no close error anywhere).
C6_RotationRetried ==
    \A p \in Procs :
        (/\ pc[p] = "w_ret"
         /\ fault[p] = "none"
         /\ hist.openFault /\ ~hist.closeFault /\ ~hist.closed) =>
            res[p].err = "nil"

\* C7: Close leaves no open handle, and the next Write after a Close opens
\* the file of the current bucket and succeeds.
C7_WriteAfterClose ==
    \A p \in Procs :
        /\ (pc[p] = "c_ret" /\ fault[p] = "none") => ~IsOpen
        /\ (/\ pc[p] = "w_ret"
            /\ hist.run >= 1
            /\ fault[p] = "none"
            /\ NoRotateFault) =>
               /\ res[p].err = "nil"
               /\ IsOpen
               /\ handles[currentFile].path = date[p]

\* C8: a Close that follows a Close with no Write between them, and a Close
\* on a writer that never opened a file, return no error.
C8_CloseIdempotent ==
    \A p \in Procs :
        (/\ pc[p] = "c_ret"
         /\ fault[p] = "none"
         /\ NoRotateFault
         /\ (hist.run = 2 \/ currentFile = NoFile)) =>
            res[p].err = "nil"

\* C9: retention never removes the file the writer has open.
C9_OpenFileKept == IsOpen => handles[currentFile].linked

\* C10: once cleanup has run over the files of RetBuckets consecutive
\* buckets, with the clock in the last one, exactly the files of the last
\* maxAge buckets are left.
C10_BucketUnits ==
    (pending = 0 /\ walkers = {}) =>
        {l \in Labels : files[l].exists} =
            {l \in 1..RetBuckets : l > RetBuckets - maxAge}

\* the handles the writer has opened and not closed
OpenHandles == {h \in DOMAIN handles : handles[h].open}

\* C26: at most one handle the writer opened is open; currentFile and
\* currentDate are changed by the holder of the mutex only, and whenever the
\* mutex is free they belong together: currentDate is the label of the file
\* currentFile refers to.
C26_OneHandleOneBucket ==
    /\ [](/\ Cardinality(OpenHandles) <= 1
          /\ mu = 0 =>
                (currentFile # NoFile => handles[currentFile].path = currentDate))
    /\ [][(currentFile' # currentFile \/ currentDate' # currentDate) =>
             (mu # 0 /\ mu' = mu /\ InRotate(mu))]_vars

\* C26 witness: a rotation has closed one handle and opened the next, and
\* the mutex is free again
C26_Witness ==
    /\ mu = 0
    /\ Len(handles) >= 2
    /\ ~handles[1].open
    /\ IsOpen
    /\ currentFile # 1

\* the extension of the file name f begins after its first k characters: at
\* the last dot of its last element, or at the end when that has no dot
ExtensionAt(f, k) ==
    IF k < Len(f)
    THEN /\ f[k + 1] = "."
         /\ \A j \in (k + 2)..Len(f) : f[j] # "." /\ f[j] # "/"
    ELSE \A j \in 1..Len(f) :
             f[j] = "." => \E i \in (j + 1)..Len(f) : f[i] = "/"

\* n is f with a dot and the label l put in right before the extension
IsInserted(n, f, l) ==
    \E k \in 0..Len(f) :
        /\ ExtensionAt(f, k)
        /\ n = SubSeq(f, 1, k) \o <<".", ToString(l)>> \o SubSeq(f, k + 1, Len(f))

Quiet == (\A p \in Procs : pc[p] = "idle") /\ pending = 0 /\ walkers = {}

\* the file of label l was opened by the writer and is no longer its
\* current file
Superseded(l) ==
    /\ files[l].exists
    /\ \E h \in DOMAIN handles : handles[h].path = l
    /\ currentDate # l

\* C24: with compress set, once the writer is at rest every file a rotation
\* has superseded is compressed; the open file is never compressed; without
\* compress no file is compressed.
C24_SupersededCompressed ==
    /\ (compress /\ Quiet) =>
          \A l \in Labels : Superseded(l) => files[l].compressed
    /\ IsOpen => ~files[handles[currentFile].path].compressed
    /\ ~compress => \A l \in Labels : ~files[l].compressed

\* C27: a Write whose rotation met an error closing the previous handle
\* still succeeds: the file of the new bucket is open, currentFile and
\* currentDate are those of the new bucket, and the record is in that file.
C27_CloseErrorNotFatal ==
    \A p \in Procs :
        (pc[p] = "w_ret" /\ fault[p] = "close") =>
            /\ res[p].err = "nil"
            /\ IsOpen
            /\ currentDate = date[p]
            /\ handles[currentFile].path = date[p]
            /\ Occ(date[p], rec[p]) = 1

\* C29: retention removes none of the other files under the writer's
\* directory (files in subdirectories, files whose name only begins like the
\* base name, files of other writers), and not the writer's open file.
C29_OnlyOwnFiles ==
    /\ \A o \in DOMAIN others : others[o].exists
    /\ IsOpen => files[handles[currentFile].path].exists

\* the status the claim gives a coder: 200 when its field HTTP is not set
\* (0), the field otherwise
StatusOf(coder) == IF coder.HTTP = 0 THEN 200 ELSE coder.HTTP

\* C25: ParseCoder never returns nil; for an error made with a registered
\* code the status of the coder it returns is 200 when the registered
\* coder's HTTP is 0 and that HTTP otherwise; for an error without a code it
\* returns the unknown coder: the same Code, and the status 500.
C25_CoderStatus ==
    [][parsed' # parsed =>
          /\ ~parsed'.nil
          /\ lastErr.code \in DOMAIN codes =>
                parsed'.status = StatusOf(codes[lastErr.code])
          /\ lastErr.code = NoCode =>
                /\ parsed'.coder.C = unknownCoder.C
                /\ parsed'.status = 500]_vars

\* C25 witness: the error made with a code registered without an HTTP status
\* has been parsed
C25_Witness ==
    /\ ~parsed.nil
    /\ ~lastErr.nil
    /\ lastErr.code \in DOMAIN codes
    /\ codes[lastErr.code].HTTP = 0
    /\ parsed.coder = codes[lastErr.code]
    /\ parsed.status = 200

\* ------------------------------------------------- vocabulary: the logger
\* the writers of core i and the paths they were made for
CoreWriters(i) == {std.cores[i].ws[j] : j \in DOMAIN std.cores[i].ws}
CorePaths(i) == {writers[w].path : w \in CoreWriters(i)}

\* the writers of the logger in use
CurrentWriters == UNION {CoreWriters(i) : i \in DOMAIN std.cores}

\* how many copies of record r the destination d holds
Copies(d, r) == Cardinality({i \in DOMAIN disk[d] : disk[d][i] = r})

\* std was built by the level router from the rules of opts
Routed == UsesLevelOutput(opts) /\ std.inits = 1

\* a log call has returned and every write of it succeeded
Logged == call.op = "log" /\ call.failed = {}

\* C11: a file path has one writer: two writers of the logger in use that
\* were made for the same file path are the same writer, so no two writers
\* have the same file open.
C11_OneWriterPerPath ==
    \A v, w \in CurrentWriters :
        (~IsConsole(writers[v].path) /\ writers[v].path = writers[w].path) => v = w

\* C12: a record a rule's pipeline accepted is written once to each
\* destination of that rule: after a log call without failures a destination
\* holds one copy for every accepting pipeline that names it.
C12_OncePerRuleDestination ==
    (Routed /\ Logged) =>
        \A d \in Paths :
            Copies(d, call.rec) =
                Cardinality({i \in call.accepted : d \in CorePaths(i)})

\* the severity a name stands for
LevelNumber ==
    [debug |-> DebugLevel, info |-> InfoLevel, warn |-> WarnLevel,
     error |-> ErrorLevel]
IsLevelName(n) == n \in DOMAIN LevelNumber

\* the lowest severity the configuration enables
MinEnabledLevel ==
    IF IsLevelName(opts.Level) THEN LevelNumber[opts.Level] ELSE InfoLevel

\* core i was built for a rule of severity l
RuleLevelIs(i, l) ==
    IsLevelName(std.cores[i].key) /\ LevelNumber[std.cores[i].key] = l

\* how many copies of record r all destinations hold together
RECURSIVE CopiesIn(_, _)
CopiesIn(D, r) ==
    IF D = {} THEN 0
    ELSE LET d == CHOOSE x \in D : TRUE IN Copies(d, r) + CopiesIn(D \ {d}, r)

\* the rules are an "all" rule and an "error" rule with one destination each,
\* not the same one
AllAndError ==
    /\ DOMAIN opts.LevelOutputPaths = {"all", "error"}
    /\ Len(opts.LevelOutputPaths["all"]) = 1
    /\ Len(opts.LevelOutputPaths["error"]) = 1
    /\ opts.LevelOutputPaths["all"][1] # opts.LevelOutputPaths["error"][1]

C14_AboveRouting ==
    (Routed /\ opts.LevelOutputMode = "above" /\ call.op = "log") =>
        \A i \in DOMAIN std.cores :
            /\ IsLevelName(std.cores[i].key)
            /\ i \in call.accepted <=> call.sev >= LevelNumber[std.cores[i].key]

\* C14 witness: one record met a rule of the severity right above its own,
\* which did not take it, and a rule of a lower severity, which did
C14_Witness ==
    /\ Routed /\ opts.LevelOutputMode = "above" /\ call.op = "log"
    /\ \E i, j \in DOMAIN std.cores :
          /\ RuleLevelIs(i, call.sev + 1) /\ i \notin call.accepted
          /\ ~RuleLevelIs(j, call.sev) /\ j \in call.accepted

\* C15: in exact mode the pipeline of a rule of level L accepts a record of
\* severity S iff S = L, and a record reaches no destination but those of a
\* rule of its own severity.
C15_ExactRouting ==
    (Routed /\ opts.LevelOutputMode = "exact" /\ call.op = "log") =>
        /\ \A i \in DOMAIN std.cores :
              i \in call.accepted <=> RuleLevelIs(i, call.sev)
        /\ \A d \in Paths :
              Copies(d, call.rec) > 0 =>
                  \E i \in DOMAIN std.cores :
                      d \in CorePaths(i) /\ RuleLevelIs(i, call.sev)

\* C15 witness: an error record met an "info" and an "error" rule and went
\* to the second only
C15_Witness ==
    /\ Routed /\ opts.LevelOutputMode = "exact" /\ Logged
    /\ call.sev = ErrorLevel
    /\ \E i, j \in DOMAIN std.cores :
          /\ RuleLevelIs(i, InfoLevel) /\ i \notin call.accepted
          /\ RuleLevelIs(j, ErrorLevel) /\ j \in call.accepted
          /\ \A d \in CorePaths(j) : Copies(d, call.rec) > 0

\* the writers of the cores that accepted the last record
AcceptedWriters == UNION {CoreWriters(i) : i \in call.accepted}

\* every writer of every accepting core was written to, and each destination
\* holds a copy for every one of them that did not fail
AllAttempted ==
    /\ {call.tried[i].w : i \in DOMAIN call.tried} = AcceptedWriters
    /\ \A d \in Paths :
          Copies(d, call.rec) =
              Cardinality({w \in AcceptedWriters \ call.failed : writers[w].path = d})

\* core i has three destinations and exactly one write failed, one of its
OneOfThreeFailed(i) ==
    /\ i \in call.accepted
    /\ Cardinality(CoreWriters(i)) = 3
    /\ Cardinality(call.failed) = 1
    /\ call.failed \subseteq CoreWriters(i)

RuleUsable(o, k) ==
    /\ IsLevelName(k) \/ (o.LevelOutputMode = "duplicate" /\ k = "all")
    /\ Len(o.LevelOutputPaths[k]) > 0

\* the rules of o yield no pipeline
ZeroPipelines(o) == \A k \in DOMAIN o.LevelOutputPaths : ~RuleUsable(o, k)

\* C17: when level routing is enabled and the rules yield no pipeline,
\* building the logger fails and makes no writer.
C17_ZeroPipelinesFail ==
    (call.op = "init" /\ call.arg.EnableLevelOutput /\ ZeroPipelines(call.arg)) =>
        /\ call.panic
        /\ call.made = {}

\* with at least one key in LevelOutputPaths, C17 holds
C17_WithRules ==
    DOMAIN call.arg.LevelOutputPaths # {} => C17_ZeroPipelinesFail

\* what a core is, apart from which writers it got: the rule, the enabler,
\* the level and the paths of its writers in order
Shape(c, ws) ==
    [key |-> c.key, enab |-> c.enab, level |-> c.level,
     paths |-> [j \in DOMAIN c.ws |-> ws[c.ws[j]].path]]
Shapes(cores, ws) == {Shape(cores[i], ws) : i \in DOMAIN cores}

\* the keys of o that name a severity the mode knows
KnownKeys(o) ==
    {k \in DOMAIN o.LevelOutputPaths :
        IsLevelName(k) \/ (o.LevelOutputMode = "duplicate" /\ k = "all")}

\* o without the rules whose key is not known
WithoutUnknownRules(o) ==
    [o EXCEPT !.LevelOutputPaths = [k \in KnownKeys(o) |-> o.LevelOutputPaths[k]]]

\* C18: a rule whose key is no known severity does not fail the build, and
\* the pipelines built are those the Options without that rule yield: the
\* same rules, each with the same predicate and the same destinations.
C18_InvalidRuleDropped ==
    (/\ call.op = "init"
     /\ call.arg.EnableLevelOutput
     /\ \E k \in DOMAIN call.arg.LevelOutputPaths : RuleUsable(call.arg, k)) =>
        /\ ~call.panic
        /\ \A order \in Orders(KnownKeys(call.arg)) :
              LET l == New(WithoutUnknownRules(call.arg), order, <<>>)
              IN  Shapes(std.cores, writers) = Shapes(l.cores, l.ws)

\* C18 witness: a logger has been built from a rule with a misspelt key, which
\* has destinations, and a rule with a good one
C18_Witness ==
    /\ call.op = "init" /\ ~call.panic
    /\ call.arg.EnableLevelOutput
    /\ \E k \in DOMAIN call.arg.LevelOutputPaths :
          /\ k \notin KnownKeys(call.arg)
          /\ Len(call.arg.LevelOutputPaths[k]) > 0
    /\ \E k \in DOMAIN call.arg.LevelOutputPaths : RuleUsable(call.arg, k)
    /\ std.cores # <<>>

\* C19: once a logger is out of use (log.Init has put another in its place,
\* which is the only end a logger has) every file-backed writer it built has
\* been closed, once.
C19_ClosedOnce ==
    \A w \in DOMAIN writers :
        (w \notin CurrentWriters /\ ~IsConsole(writers[w].path)) =>
            writers[w].closes = 1

\* Sync was called on every writer of the logger, once
AllSynced ==
    /\ {call.tried[i].w : i \in DOMAIN call.tried} = CurrentWriters
    /\ Len(call.tried) = Cardinality(CurrentWriters)

\* C20: Flush calls Sync on every writer of the logger, also on those after
\* one whose Sync failed, and returns the first Sync error to its caller.
C20_FirstErrorReported ==
    call.op = "flush" =>
        /\ AllSynced
        /\ call.failed = {} => call.ret = <<>>
        /\ call.failed # {} =>
              /\ Len(call.ret) = 1
              /\ \E i \in DOMAIN call.tried :
                    /\ call.tried[i].w = call.ret[1]
                    /\ call.tried[i].w \in call.failed
                    /\ \A j \in 1..(i - 1) : call.tried[j].w \notin call.failed

\* C20 as amended: Flush calls Sync on every writer of the logger, also on
\* those after one whose Sync failed; the cores aggregate one error for each
\* Sync that failed, and Flush returns nothing to its caller.
C20_SyncsAllDropsError ==
    call.op = "flush" =>
        /\ AllSynced
        /\ {call.errs[i] : i \in DOMAIN call.errs} = call.failed
        /\ call.ret = <<>>

\* C20 witness: the Sync of the first writer failed and that of a later
\* writer was called
C20_Witness ==
    /\ call.op = "flush"
    /\ Len(call.tried) >= 2
    /\ call.tried[1].w \in call.failed
    /\ call.tried[2].w \notin call.failed

\* C21: no writer is made for a file path that is empty or whose directory
\* cannot be created, and building a logger from a rule that names such a
\* path fails.
C21_ResolveFails ==
    /\ \A w \in DOMAIN writers : writers[w].path \notin BadPaths
    /\ (/\ call.op = "init"
        /\ UsesLevelOutput(call.arg)
        /\ \E k \in DOMAIN call.arg.LevelOutputPaths :
              /\ RuleUsable(call.arg, k)
              /\ \E i \in DOMAIN call.arg.LevelOutputPaths[k] :
                    call.arg.LevelOutputPaths[k][i] \in BadPaths) =>
           call.panic

\* C22: building a logger from Options whose Level is no severity name
\* fails: log.Init panics and makes no writer.
C22_InvalidLevelFails ==
    (call.op = "init" /\ ~IsLevelName(call.arg.Level)) =>
        /\ call.panic
        /\ call.made = {}

\* the Options o with the Level info
WithLevelInfo(o) == [o EXCEPT !.Level = "info"]

\* C22 as amended: Options whose Level is no severity name do not fail the
\* build: log.Init builds what it builds for the Level info, and fails only
\* if it fails for info as well; the cores at the lowest enabled level are
\* at info.
C22_InvalidLevelMeansInfo ==
    (call.op = "init" /\ ~IsLevelName(call.arg.Level)) =>
        /\ \A order \in Orders(DOMAIN call.arg.LevelOutputPaths) :
              LET l == New(WithLevelInfo(call.arg), order, <<>>)
              IN  /\ call.panic = l.err
                  /\ ~call.panic => Shapes(std.cores, writers) = Shapes(l.cores, l.ws)
        /\ ~call.panic =>
              \A i \in DOMAIN std.cores :
                  std.cores[i].key \in {"all", "outputs"} =>
                      std.cores[i].level = InfoLevel

\* C22 witness: a logger has been built from Options with a misspelt Level,
\* with a core at the lowest enabled level
C22_Witness ==
    /\ call.op = "init" /\ ~call.panic
    /\ ~IsLevelName(call.arg.Level)
    /\ \E i \in DOMAIN std.cores : std.cores[i].key \in {"all", "outputs"}

\* C28: in every routing mode a record of a severity below the lowest enabled
\* one is accepted by no pipeline and written to no destination.
C28_BelowMinimumDropped ==
    (Routed /\ call.op = "log" /\ call.sev < MinEnabledLevel) =>
        /\ call.accepted = {}
        /\ \A d \in AllPaths : Copies(d, call.rec) = 0

\* C30: no goroutine is at its read of std, in a logging function or in
\* Flush, while another is at Init's assignment to std.
C30_InitExcludesUse ==
    \A g, h \in Goroutines :
        At(g, "i_store") => ~(At(h, "l_read") \/ At(h, "f_read"))

=============================================================================
